---- MODULE Spec2Model ----
(***************************************************************************)
(* A model of ipconfig2: the interface-index resolver with its per-thread  *)
(* cache (src/src/ifindex.rs) and the adapter enumerator with its buffer   *)
(* retry loop and record walkers (src/src/adapter.rs).                     *)
(***************************************************************************)
EXTENDS Integers, Sequences, FiniteSets, TLC

(***************************************************************************)
(* Values shared by the components.                                        *)
(***************************************************************************)

\* Option<T>: None is the empty tuple, Some(x) the one-element tuple.
None == <<>>
Some(x) == <<x>>

\* Result<T, E>.
Ok(v) == [tag |-> "Ok", val |-> v]
Err(e) == [tag |-> "Err", err |-> e]

\* crate::error::Error { kind: ErrorKind::Os(code) }.
OsError(code) == [kind |-> "Os", code |-> code]

\* io::Error::new(kind, payload).
IoError(kind, payload) == [kind |-> kind, payload |-> payload]

Min(S) == CHOOSE x \in S : \A y \in S : x <= y

VARIABLES
  \* find_interface_index_cached (ifindex.rs)
  now,     \* Instant::now(), in whole seconds
  cache,   \* INTERFACE_INDEX_CACHE of each thread: name -> Option<(idx, Instant)>
  call,    \* per thread, the frame of its find_interface_index_cached call
  entry_origin,  \* history: per cache entry, the resolution that inserted it
  \* get_adapters (adapter.rs)
  ga_pc,                      \* where the call stands
  buf_len,                    \* let mut buf_len: u32
  adapters_addresses_buffer,  \* the Vec<u8>: its length and the records in it
  result,                     \* the status of the last GetAdaptersAddresses
  adapters,                   \* let mut adapters = vec![]
  adapter_addresses_ptr,      \* the walk's cursor
  ga_ret,                     \* what the call returned
  queries,                    \* the GetAdaptersAddresses calls made, in order
  decoded,                    \* the records handed to get_adapter, in order
  \* the record walkers (adapter.rs), applied to a chain in memory
  walk,
  \* get_sub_layers, get_filters, add_sub_layer (fwpm.rs)
  fw,          \* the frame of the call
  engine,      \* the packet-filter engine: sessions, cursors, sub-layers
  registered,  \* history: the keys add_sub_layer returned Ok for
  \* the conversions (utils.rs, fwpm.rs, adapter.rs), applied to an input
  applied

avars == <<ga_pc, buf_len, adapters_addresses_buffer, result, adapters,
           adapter_addresses_ptr, ga_ret, queries, decoded>>

fvars == <<fw, engine, registered>>

(***************************************************************************)
(* Interface index resolver and cache: src/src/ifindex.rs.                 *)
(***************************************************************************)

\* Bounds of the resolver model.
MaxTime == 6
MaxCalls == 3

\* const INDEX_EXPIRE_DURATION: Duration = Duration::from_secs(5), in seconds.
INDEX_EXPIRE_DURATION == 5

Threads == {"t1", "t2"}
MainThread == {"t1"}

\* Names passed as iface: a friendly name and an adapter name.
Ifaces == {"eth0", "{C}"}

\* The fields of Adapter the resolver reads, for three adapters of a host: one
\* with both families, one without IPv6, one without IPv4.
Eth == [friendly_name |-> "eth0", adapter_name |-> "{A}",
        ipv4_if_index |-> 1, ipv6_if_index |-> 2]
EthV4Only == [friendly_name |-> "eth0", adapter_name |-> "{B}",
              ipv4_if_index |-> 3, ipv6_if_index |-> 0]
LoV6Only == [friendly_name |-> "lo", adapter_name |-> "{C}",
             ipv4_if_index |-> 0, ipv6_if_index |-> 4]
AdapterViews == {Eth, EthV4Only, LoV6Only}

AdapterLists ==
  {<<>>} \cup {<<a>> : a \in AdapterViews}
         \cup {l \in {<<a, b>> : a \in AdapterViews, b \in AdapterViews} : l[1] # l[2]}

\* What crate::get_adapters() can hand to the resolver.
GetAdaptersOutcomes ==
  {Ok(l) : l \in AdapterLists} \cup {Err(OsError(c)) : c \in {8}}

\* What if_nametoindex can answer: 0 is its only failure report.
NameToIndexAnswers == {0, 5}

rvars == <<now, cache, call, entry_origin>>

(***************************************************************************)
(* Adapter enumerator: src/src/adapter.rs.                                 *)
(***************************************************************************)

\* Bounds of the enumerator model: the larger sizes the OS may ask for, the
\* adapter records of a table, the records of a sub-chain.
MaxOverflows == 2
MaxAdapters == 2
MaxChain == 3

ERROR_SUCCESS == 0
ERROR_BUFFER_OVERFLOW == 111

\* let mut buf_len: u32 = 16384
InitialBufLen == 16384

\* The sizes GetAdaptersAddresses may report as required, and its other failures
\* (ERROR_NOT_ENOUGH_MEMORY, ERROR_NO_DATA).
RequiredSizes == {20000 * i : i \in 1..MaxOverflows}
OsFailures == {8, 232}

\* A null pointer; the other pointers are the addresses 1, 2, ...
Null == 0

\* A call that unwinds (panic!, unwrap, assert!) or takes the process down.
Panic(msg) == [tag |-> "Panic", msg |-> msg]
Crash == [tag |-> "Crash"]

\* The error a `?` makes of a failed text decoding.
DecodeError(what) == [kind |-> what]

(* Socket addresses. *)

AF_INET == 2
AF_INET6 == 23
\* size_of::<sockaddr_storage>()
SockaddrStorageSize == 128

Zeros(n) == [i \in 1..n |-> 0]

\* sockaddr_in (16 bytes) and sockaddr_in6 (28 bytes) of host number h, and a
\* sockaddr of a family that is not IP.
SockaddrIn(h) == <<AF_INET, 0, 0, 0, 10, 0, 0, h>> \o Zeros(8)
SockaddrIn6(h) == <<AF_INET6, 0, 0, 0>> \o Zeros(4) \o <<254, 128>> \o Zeros(13) \o <<h>> \o Zeros(4)
SockaddrOther(h) == <<1, 0, h, 0>> \o Zeros(12)

SocketAddress(bytes) == [lpSockaddr |-> bytes, iSockaddrLength |-> Len(bytes)]

\* The byte i of the zeroed staging storage after copy_from_nonoverlapping of
\* sockaddr_length bytes.
StorageByte(socket_address, sockaddr_length, i) ==
  IF i <= sockaddr_length /\ i <= Len(socket_address.lpSockaddr)
  THEN socket_address.lpSockaddr[i] ELSE 0

\* Mutant of the staging: a blob longer than the storage is cut to fit.
try_init_truncating(socket_address) ==
  IF socket_address.iSockaddrLength < 0
  THEN Panic("usize::try_from(iSockaddrLength)")
  ELSE LET sockaddr_length ==
             IF socket_address.iSockaddrLength <= SockaddrStorageSize
             THEN socket_address.iSockaddrLength ELSE SockaddrStorageSize
       IN Ok([storage |-> [i \in 1..SockaddrStorageSize |->
                             StorageByte(socket_address, sockaddr_length, i)],
              copied |-> sockaddr_length,
              length |-> sockaddr_length])

\* Lines 200-208: the closure of SockAddr::try_init on the zeroed storage: the
\* storage after it, the bytes copied into it and the length written.
try_init(socket_address) ==
  IF socket_address.iSockaddrLength < 0
  THEN Panic("usize::try_from(iSockaddrLength)")
  ELSE LET sockaddr_length == socket_address.iSockaddrLength
       IN IF ~(sockaddr_length <= SockaddrStorageSize)
          THEN Panic("assertion failed: sockaddr_length <= size_of storage")
          ELSE Ok([storage |-> [i \in 1..SockaddrStorageSize |->
                                 StorageByte(socket_address, sockaddr_length, i)],
                  copied |-> sockaddr_length,
                  length |-> socket_address.iSockaddrLength])

\* Lines 199-212.
socket_address_to_ipaddr(socket_address) ==
  LET staged == try_init(socket_address)
  IN IF staged.tag = "Panic" THEN staged
     ELSE LET storage == staged.val.storage
              ss_family == storage[1] + 256 * storage[2]
          IN IF ss_family = AF_INET
             THEN Ok([v |-> 4, octets |-> [i \in 1..4 |-> storage[4 + i]]])
             ELSE IF ss_family = AF_INET6
             THEN Ok([v |-> 6, octets |-> [i \in 1..16 |-> storage[8 + i]]])
             ELSE Panic("called Option::unwrap() on a None value")

(* The record walkers: one loop per record shape. *)

RECURSIVE get_dns_servers_loop(_, _, _)
get_dns_servers_loop(mem, dns_server_ptr, dns_servers) ==
  IF dns_server_ptr = Null THEN Ok(dns_servers)
  ELSE LET dns_server == mem[dns_server_ptr]
           ipaddr == socket_address_to_ipaddr(dns_server.Address)
       IN IF ipaddr.tag = "Panic" THEN ipaddr
          ELSE get_dns_servers_loop(mem, dns_server.Next, Append(dns_servers, ipaddr.val))

get_dns_servers(mem, dns_server_ptr) == get_dns_servers_loop(mem, dns_server_ptr, <<>>)

RECURSIVE get_gateways_loop(_, _, _)
get_gateways_loop(mem, gateway_ptr, gateways) ==
  IF gateway_ptr = Null THEN Ok(gateways)
  ELSE LET gateway == mem[gateway_ptr]
           ipaddr == socket_address_to_ipaddr(gateway.Address)
       IN IF ipaddr.tag = "Panic" THEN ipaddr
          ELSE get_gateways_loop(mem, gateway.Next, Append(gateways, ipaddr.val))

\* Mutant of get_gateways: each entry is put in front of the list.
RECURSIVE get_gateways_prepend_loop(_, _, _)
get_gateways_prepend_loop(mem, gateway_ptr, gateways) ==
  IF gateway_ptr = Null THEN Ok(gateways)
  ELSE LET gateway == mem[gateway_ptr]
           ipaddr == socket_address_to_ipaddr(gateway.Address)
       IN IF ipaddr.tag = "Panic" THEN ipaddr
          ELSE get_gateways_prepend_loop(mem, gateway.Next, <<ipaddr.val>> \o gateways)

get_gateways_prepend(mem, gateway_ptr) == get_gateways_prepend_loop(mem, gateway_ptr, <<>>)

get_gateways(mem, gateway_ptr) == get_gateways_loop(mem, gateway_ptr, <<>>)

RECURSIVE get_unicast_addresses_loop(_, _, _)
get_unicast_addresses_loop(mem, unicast_addresses_ptr, unicast_addresses) ==
  IF unicast_addresses_ptr = Null THEN Ok(unicast_addresses)
  ELSE LET unicast_address == mem[unicast_addresses_ptr]
           ipaddr == socket_address_to_ipaddr(unicast_address.Address)
       IN IF ipaddr.tag = "Panic" THEN ipaddr
          ELSE get_unicast_addresses_loop(mem, unicast_address.Next,
                                          Append(unicast_addresses, ipaddr.val))

get_unicast_addresses(mem, unicast_addresses_ptr) ==
  get_unicast_addresses_loop(mem, unicast_addresses_ptr, <<>>)

RECURSIVE get_prefixes_loop(_, _, _)
get_prefixes_loop(mem, prefixes_ptr, prefixes) ==
  IF prefixes_ptr = Null THEN Ok(prefixes)
  ELSE LET prefix == mem[prefixes_ptr]
           ipaddr == socket_address_to_ipaddr(prefix.Address)
       IN IF ipaddr.tag = "Panic" THEN ipaddr
          ELSE get_prefixes_loop(mem, prefix.Next,
                                 Append(prefixes, <<ipaddr.val, prefix.PrefixLength>>))

get_prefixes(mem, prefixes_ptr) == get_prefixes_loop(mem, prefixes_ptr, <<>>)

(* Chains in memory, for the walkers. *)

\* The socket address of a family carried by the record at address a.
Families == {"in", "in6", "other"}

CellAddress(family, a) ==
  IF family = "in" THEN SocketAddress(SockaddrIn(a))
  ELSE IF family = "in6" THEN SocketAddress(SockaddrIn6(a))
  ELSE SocketAddress(SockaddrOther(a))

\* The link orders of a chain: the addresses of its records, each once.
LinkOrders ==
  {s \in UNION {[1..n -> 1..MaxChain] : n \in 0..MaxChain} :
     \A i, j \in 1..Len(s) : i # j => s[i] # s[j]}

\* The memory holding the chain of link order s: the record at s[i] links to
\* s[i+1], the last one to null; the records off the chain link to null.
ChainMemory(s, family) ==
  [a \in 1..MaxChain |->
     [Address |-> CellAddress(family[a], a),
      PrefixLength |-> 8 * a,
      Next |-> IF \E i \in 1..(Len(s) - 1) : s[i] = a
               THEN s[(CHOOSE i \in 1..(Len(s) - 1) : s[i] = a) + 1]
               ELSE Null]]

ChainHead(s) == IF s = <<>> THEN Null ELSE s[1]

NoWalk == [fn |-> "none"]

Walked(fn, s, family, out) ==
  [fn |-> fn, chain |-> s, family |-> family, mem |-> ChainMemory(s, family), out |-> out]

WalkDnsServers(s, family) ==
  /\ walk = NoWalk
  /\ walk' = Walked("get_dns_servers", s, family,
                    get_dns_servers(ChainMemory(s, family), ChainHead(s)))
  /\ UNCHANGED <<rvars, avars, fvars, applied>>

WalkGateways(s, family) ==
  /\ walk = NoWalk
  /\ walk' = Walked("get_gateways", s, family,
                    get_gateways(ChainMemory(s, family), ChainHead(s)))
  /\ UNCHANGED <<rvars, avars, fvars, applied>>

WalkUnicastAddresses(s, family) ==
  /\ walk = NoWalk
  /\ walk' = Walked("get_unicast_addresses", s, family,
                    get_unicast_addresses(ChainMemory(s, family), ChainHead(s)))
  /\ UNCHANGED <<rvars, avars, fvars, applied>>

WalkPrefixes(s, family) ==
  /\ walk = NoWalk
  /\ walk' = Walked("get_prefixes", s, family,
                    get_prefixes(ChainMemory(s, family), ChainHead(s)))
  /\ UNCHANGED <<rvars, avars, fvars, applied>>


NotCalled == [tag |-> "NotCalled"]

IdleFrame ==
  [pc |-> "idle", seq |-> 0, iface |-> "", is_ipv6 |-> FALSE, cache_index |-> None,
   t0 |-> 0, adapters |-> NotCalled, if_index |-> -1, idx |-> -1,
   os_calls |-> <<>>, ret |-> NotCalled, stale_failures |-> 0]

\* Mutants of the freshness test: an entry of age 5 still fresh, an entry of
\* age 4 already stale.
cache_fresh_off_by_one(t_now, insert_time) == t_now - insert_time <= INDEX_EXPIRE_DURATION
cache_fresh_short(t_now, insert_time) == t_now - insert_time < INDEX_EXPIRE_DURATION - 1

\* now - insert_time < INDEX_EXPIRE_DURATION
cache_fresh(t_now, insert_time) == t_now - insert_time < INDEX_EXPIRE_DURATION

\* find_adapter_interface_index, given the result of crate::get_adapters().
find_adapter_interface_index(res, is_ipv6, iface) ==
  IF res.tag = "Err"
  THEN Err(IoError("NotFound", res.err))
  ELSE LET adapaters == res.val
           hits == {i \in 1..Len(adapaters) :
                      /\ IF is_ipv6 THEN adapaters[i].ipv6_if_index # 0
                                    ELSE adapaters[i].ipv4_if_index # 0
                      /\ \/ adapaters[i].friendly_name = iface
                         \/ adapaters[i].adapter_name = iface}
       IN IF hits = {} THEN Ok(None)
          ELSE Ok(Some(adapaters[Min(hits)].ipv4_if_index))

\* A thread that made failed re-resolutions of a stale entry keeps count of them.
StaleFailures(f, iface) ==
  IF /\ f.pc = "done" /\ f.ret.tag = "Err" /\ f.iface = iface
     /\ f.cache_index # None
  THEN f.stale_failures + 1 ELSE 0

\* Mutant of thread_local!: one static map for all the threads.
thread_cache_static(t) == "t1"

\* Lines 41-44, thread_local!: the INTERFACE_INDEX_CACHE a thread reaches is its
\* own instance.
thread_cache(t) == t

\* Mutant of the cache read: an entry answers only the family it was made for.
cache_get_same_family(t, iface, is_ipv6) ==
  IF /\ entry_origin[thread_cache(t)][iface] # None
     /\ entry_origin[thread_cache(t)][iface][1].is_ipv6 = is_ipv6
  THEN cache[thread_cache(t)][iface] ELSE None

\* Line 46: map.get(iface).cloned(); is_ipv6 is no part of the key.
cache_get(t, iface, is_ipv6) == cache[thread_cache(t)][iface]

\* History: how the entry the call is about to insert was resolved: for which
\* family, by the adapter scan or by the fallback, and the index the adapter
\* found has for the other family.
EntryOrigin(f) ==
  [is_ipv6 |-> f.is_ipv6,
   via |-> IF f.if_index # -1 THEN "if_nametoindex" ELSE "adapters",
   other_index |->
     IF f.if_index # -1 THEN -1
     ELSE LET adapaters == f.adapters.val
              hits == {i \in 1..Len(adapaters) :
                         /\ IF f.is_ipv6 THEN adapaters[i].ipv6_if_index # 0
                                         ELSE adapaters[i].ipv4_if_index # 0
                         /\ \/ adapaters[i].friendly_name = f.iface
                            \/ adapaters[i].adapter_name = f.iface}
          IN IF f.is_ipv6 THEN adapaters[Min(hits)].ipv4_if_index
                          ELSE adapaters[Min(hits)].ipv6_if_index]

\* Mutant of the cache hit: the entry read is written back with the current
\* time.
LookupRefreshing(t, is_ipv6, iface) ==
  /\ call[t].pc \in {"idle", "done"}
  /\ call[t].seq < MaxCalls
  /\ LET cache_index == cache_get(t, iface, is_ipv6)
         f == [IdleFrame EXCEPT !.seq = call[t].seq + 1, !.iface = iface, !.is_ipv6 = is_ipv6,
                                !.cache_index = cache_index, !.t0 = now,
                                !.stale_failures = StaleFailures(call[t], iface)]
     IN IF cache_index # None /\ cache_fresh(now, cache_index[2])
        THEN /\ call' = [call EXCEPT ![t] =
                          [f EXCEPT !.pc = "done", !.ret = Ok(cache_index[1])]]
             /\ cache' = [cache EXCEPT ![thread_cache(t)][iface] = <<cache_index[1], now>>]
        ELSE /\ call' = [call EXCEPT ![t] = [f EXCEPT !.pc = "enumerate"]]
             /\ UNCHANGED cache
  /\ UNCHANGED <<now, entry_origin>>
  /\ UNCHANGED <<avars, walk, fvars, applied>>

\* Lines 46-53: read the thread's cache; a young entry is returned at once.
Lookup(t, is_ipv6, iface) ==
  /\ call[t].pc \in {"idle", "done"}
  /\ call[t].seq < MaxCalls
  /\ LET cache_index == cache_get(t, iface, is_ipv6)
         f == [IdleFrame EXCEPT !.seq = call[t].seq + 1, !.iface = iface, !.is_ipv6 = is_ipv6,
                                !.cache_index = cache_index, !.t0 = now,
                                !.stale_failures = StaleFailures(call[t], iface)]
     IN IF cache_index # None /\ cache_fresh(now, cache_index[2])
        THEN call' = [call EXCEPT ![t] =
                        [f EXCEPT !.pc = "done", !.ret = Ok(cache_index[1])]]
        ELSE call' = [call EXCEPT ![t] = [f EXCEPT !.pc = "enumerate"]]
  /\ UNCHANGED <<now, cache, entry_origin>>
  /\ UNCHANGED <<avars, walk, fvars, applied>>

\* Mutant of the scan: a failed enumeration is taken for a list without a match.
EnumerateFallbackOnError(t, res) ==
  /\ call[t].pc = "enumerate"
  /\ LET f == [call[t] EXCEPT !.adapters = res,
                              !.os_calls = Append(@, "GetAdaptersAddresses")]
         found == find_adapter_interface_index(res, f.is_ipv6, f.iface)
     IN call' = [call EXCEPT ![t] =
          IF found.tag = "Err" THEN [f EXCEPT !.pc = "fallback"]
          ELSE IF found.val # None
               THEN [f EXCEPT !.pc = "insert", !.idx = found.val[1]]
               ELSE [f EXCEPT !.pc = "fallback"]]
  /\ UNCHANGED <<now, cache, entry_origin>>
  /\ UNCHANGED <<avars, walk, fvars, applied>>

\* Lines 55-57: get_adapters and the scan of its list.
Enumerate(t, res) ==
  /\ call[t].pc = "enumerate"
  /\ LET f == [call[t] EXCEPT !.adapters = res,
                              !.os_calls = Append(@, "GetAdaptersAddresses")]
         found == find_adapter_interface_index(res, f.is_ipv6, f.iface)
     IN call' = [call EXCEPT ![t] =
          IF found.tag = "Err" THEN [f EXCEPT !.pc = "done", !.ret = found]
          ELSE IF found.val # None
               THEN [f EXCEPT !.pc = "insert", !.idx = found.val[1]]
               ELSE [f EXCEPT !.pc = "fallback"]]
  /\ UNCHANGED <<now, cache, entry_origin>>
  /\ UNCHANGED <<avars, walk, fvars, applied>>

\* Mutant of the fallback: a 0 answer taken for an index.
NameToIndexZeroOk(t, if_index) ==
  /\ call[t].pc = "fallback"
  /\ call' = [call EXCEPT ![t] =
       [@ EXCEPT !.if_index = if_index, !.os_calls = Append(@, "if_nametoindex"),
                 !.pc = "insert", !.idx = if_index]]
  /\ UNCHANGED <<now, cache, entry_origin>>
  /\ UNCHANGED <<avars, walk, fvars, applied>>

\* Lines 58-74: the if_nametoindex fallback; 0 is an invalid interface name.
\* (The names of Ifaces hold no NUL, so CString::new(iface) succeeds.)
NameToIndex(t, if_index) ==
  /\ call[t].pc = "fallback"
  /\ LET f == [call[t] EXCEPT !.if_index = if_index,
                              !.os_calls = Append(@, "if_nametoindex")]
     IN call' = [call EXCEPT ![t] =
          IF if_index = 0
          THEN [f EXCEPT !.pc = "done",
                         !.ret = Err(IoError("InvalidInput", "invalid interface name"))]
          ELSE [f EXCEPT !.pc = "insert", !.idx = if_index]]
  /\ UNCHANGED <<now, cache, entry_origin>>
  /\ UNCHANGED <<avars, walk, fvars, applied>>

\* Lines 77-83: insert (idx, Instant::now()) under the name and return idx.
Insert(t) ==
  /\ call[t].pc = "insert"
  /\ cache' = [cache EXCEPT ![thread_cache(t)][call[t].iface] = <<call[t].idx, now>>]
  /\ entry_origin' = [entry_origin EXCEPT ![thread_cache(t)][call[t].iface] =
                        Some(EntryOrigin(call[t]))]
  /\ call' = [call EXCEPT ![t] = [@ EXCEPT !.pc = "done", !.ret = Ok(call[t].idx)]]
  /\ UNCHANGED now
  /\ UNCHANGED <<avars, walk, fvars, applied>>

\* The clock advances between any two steps.
Tick ==
  /\ now < MaxTime
  /\ now' = now + 1
  /\ UNCHANGED <<cache, call, entry_origin>>
  /\ UNCHANGED <<avars, walk, fvars, applied>>

(* Adapter records in the buffer. *)

\* A pointer to a narrow or wide string: null, or the code units it points to.
NullStr == [null |-> TRUE, units |-> <<>>]
Str(units) == [null |-> FALSE, units |-> units]

\* CStr::to_str: the bytes up to the terminator must be UTF-8. Of the bytes used
\* here those below 128 are, and 255 is in no UTF-8 sequence.
to_str(bytes) ==
  IF \A i \in 1..Len(bytes) : bytes[i] < 128
  THEN Ok(bytes) ELSE Err(DecodeError("Utf8Error"))

\* WideCString::to_string: the units must be UTF-16. Of the units used here those
\* outside 0xD800..0xDFFF are, and a lone 0xD800 is an unpaired surrogate.
to_string(units) ==
  IF \A i \in 1..Len(units) : units[i] < 55296 \/ units[i] > 57343
  THEN Ok(units) ELSE Err(DecodeError("Utf16Error"))

\* The sub-chains of the host's adapters: the records MaxChain, ..., 1 link
\* downwards to null, and the record MaxChain + 1 carries a non-IP sockaddr.
HostCells ==
  [a \in 1..(MaxChain + 1) |->
     [Address |-> CellAddress(IF a <= MaxChain THEN "in" ELSE "other", a),
      PrefixLength |-> 8 * a,
      Next |-> IF a <= MaxChain THEN a - 1 ELSE Null]]

\* The zeroed bytes of the buffer read as an IP_ADAPTER_ADDRESSES_LH.
ZeroRecord ==
  [Next |-> Null, AdapterName |-> NullStr, Description |-> NullStr,
   FriendlyName |-> NullStr, IfIndex |-> 0, Ipv6IfIndex |-> 0,
   OperStatus |-> 0, IfType |-> 0, PhysicalAddressLength |-> 0,
   PhysicalAddress |-> Zeros(8),
   FirstDnsServerAddress |-> Null, FirstGatewayAddress |-> Null,
   FirstPrefix |-> Null, FirstUnicastAddress |-> Null]

\* An adapter the OS reports: "{A}", "eth", up, Ethernet, no sub-chains.
PlainRecord ==
  [Next |-> Null, AdapterName |-> Str(<<123, 65, 125>>),
   Description |-> Str(<<73, 110>>), FriendlyName |-> Str(<<101, 116, 104>>),
   IfIndex |-> 1, Ipv6IfIndex |-> 2, OperStatus |-> 1, IfType |-> 6,
   PhysicalAddressLength |-> 0, PhysicalAddress |-> <<0, 17, 34, 51, 68, 85, 0, 0>>,
   FirstDnsServerAddress |-> Null, FirstGatewayAddress |-> Null,
   FirstPrefix |-> Null, FirstUnicastAddress |-> Null]

\* The records of the tables: the plain one and its variations.
RawRecords ==
  { PlainRecord,
    [PlainRecord EXCEPT !.AdapterName = Str(<<123, 255, 125>>)],
    [PlainRecord EXCEPT !.Description = Str(<<55296, 110>>)],
    [PlainRecord EXCEPT !.FriendlyName = Str(<<101, 55296>>)],
    [PlainRecord EXCEPT !.FirstUnicastAddress = 2, !.FirstGatewayAddress = 1],
    [PlainRecord EXCEPT !.FirstDnsServerAddress = MaxChain, !.FirstPrefix = 1,
                        !.PhysicalAddressLength = 6],
    [PlainRecord EXCEPT !.FirstDnsServerAddress = MaxChain + 1],
    [PlainRecord EXCEPT !.OperStatus = 7, !.IfType = 1, !.IfIndex = 0],
    [PlainRecord EXCEPT !.OperStatus = 8],
    [PlainRecord EXCEPT !.IfType = 999, !.Ipv6IfIndex = 0] }

\* The tables: up to MaxAdapters records in link order.
RawTables == UNION {[1..n -> RawRecords] : n \in 0..MaxAdapters}

\* Where the OS puts record i of n: the first at the head of the buffer, the
\* others from the far end downwards.
Place(n, i) == IF i = 1 THEN 1 ELSE n + 2 - i

\* A buffer of len bytes, zero-filled.
ZeroedBuffer(len) == [len |-> len, mem |-> [a \in 1..MaxAdapters |-> ZeroRecord]]

\* The buffer after the OS wrote the table into it.
FilledBuffer(len, table) ==
  [len |-> len,
   mem |-> [a \in 1..MaxAdapters |->
     IF \E i \in 1..Len(table) : Place(Len(table), i) = a
     THEN LET i == CHOOSE k \in 1..Len(table) : Place(Len(table), k) = a
          IN [table[i] EXCEPT !.Next = IF i = Len(table) THEN Null
                                       ELSE Place(Len(table), i + 1)]
     ELSE ZeroRecord]]

\* as_mut_ptr() of a Vec with len > 0: the head of the buffer, never null.
BufferPtr == 1

oper_status(v) ==
  IF v = 1 THEN Ok("IfOperStatusUp")
  ELSE IF v = 2 THEN Ok("IfOperStatusDown")
  ELSE IF v = 3 THEN Ok("IfOperStatusTesting")
  ELSE IF v = 4 THEN Ok("IfOperStatusUnknown")
  ELSE IF v = 5 THEN Ok("IfOperStatusDormant")
  ELSE IF v = 6 THEN Ok("IfOperStatusNotPresent")
  ELSE IF v = 7 THEN Ok("IfOperStatusLowerLayerDown")
  ELSE Panic("unexpected OperStatus value")

\* Mutant of the match on IfType: the catch-all arm gives Other.
if_type_catch_all_other(v) ==
  IF v = 6 THEN "EthernetCsmacd"
  ELSE IF v = 9 THEN "Iso88025Tokenring"
  ELSE IF v = 23 THEN "Ppp"
  ELSE IF v = 24 THEN "SoftwareLoopback"
  ELSE IF v = 37 THEN "Atm"
  ELSE IF v = 71 THEN "Ieee80211"
  ELSE IF v = 131 THEN "Tunnel"
  ELSE IF v = 144 THEN "Ieee1394"
  ELSE "Other"

\* Lines 153-164.
if_type(v) ==
  IF v = 1 THEN "Other"
  ELSE IF v = 6 THEN "EthernetCsmacd"
  ELSE IF v = 9 THEN "Iso88025Tokenring"
  ELSE IF v = 23 THEN "Ppp"
  ELSE IF v = 24 THEN "SoftwareLoopback"
  ELSE IF v = 37 THEN "Atm"
  ELSE IF v = 71 THEN "Ieee80211"
  ELSE IF v = 131 THEN "Tunnel"
  ELSE IF v = 144 THEN "Ieee1394"
  ELSE "Unsupported"

\* What reading through a null string pointer can do: the access faults, or it
\* reads bytes that are no UTF-8, or it reads some text and the decoding goes on
\* to the zero OperStatus.
NullNameOutcomes ==
  {Crash, Err(DecodeError("Utf8Error")), Panic("unexpected OperStatus value")}

\* get_adapter: the outcomes of decoding the record adapter_addresses.
get_adapter(adapter_addresses) ==
  IF adapter_addresses.AdapterName.null THEN NullNameOutcomes
  ELSE
  LET ipv4_if_index == adapter_addresses.IfIndex
      adapter_name == to_str(adapter_addresses.AdapterName.units)
      dns_servers == get_dns_servers(HostCells, adapter_addresses.FirstDnsServerAddress)
      gateways == get_gateways(HostCells, adapter_addresses.FirstGatewayAddress)
      prefixes == get_prefixes(HostCells, adapter_addresses.FirstPrefix)
      unicast_addresses ==
        get_unicast_addresses(HostCells, adapter_addresses.FirstUnicastAddress)
      status == oper_status(adapter_addresses.OperStatus)
      ipv6_if_index == adapter_addresses.Ipv6IfIndex
      description == to_string(adapter_addresses.Description.units)
      friendly_name == to_string(adapter_addresses.FriendlyName.units)
      physical_address ==
        IF adapter_addresses.PhysicalAddressLength = 0 THEN Ok(None)
        ELSE IF adapter_addresses.PhysicalAddressLength > Len(adapter_addresses.PhysicalAddress)
        THEN Panic("range end index out of range for slice")
        ELSE Ok(Some(SubSeq(adapter_addresses.PhysicalAddress, 1,
                            adapter_addresses.PhysicalAddressLength)))
  IN IF adapter_name.tag = "Err" THEN {adapter_name}
     ELSE IF dns_servers.tag = "Panic" THEN {dns_servers}
     ELSE IF gateways.tag = "Panic" THEN {gateways}
     ELSE IF prefixes.tag = "Panic" THEN {prefixes}
     ELSE IF unicast_addresses.tag = "Panic" THEN {unicast_addresses}
     ELSE IF status.tag = "Panic" THEN {status}
     ELSE IF description.tag = "Err" THEN {description}
     ELSE IF friendly_name.tag = "Err" THEN {friendly_name}
     ELSE IF physical_address.tag = "Panic" THEN {physical_address}
     ELSE {Ok([adapter_name |-> adapter_name.val,
               ipv4_if_index |-> ipv4_if_index,
               ip_addresses |-> unicast_addresses.val,
               prefixes |-> prefixes.val,
               gateways |-> gateways.val,
               dns_servers |-> dns_servers.val,
               description |-> description.val,
               friendly_name |-> friendly_name.val,
               physical_address |-> physical_address.val,
               oper_status |-> status.val,
               if_type |-> if_type(adapter_addresses.IfType),
               ipv6_if_index |-> ipv6_if_index])}

(* GetAdaptersAddresses and the steps of get_adapters. *)

OsAnswer(status, size, table) == [status |-> status, size |-> size, table |-> table]

\* What the OS can answer to a query: the buffer is too small and a larger size
\* is required, the table, or another failure.
OsAnswers ==
  {OsAnswer(ERROR_BUFFER_OVERFLOW, n, <<>>) : n \in RequiredSizes}
    \cup {OsAnswer(ERROR_SUCCESS, 0, t) : t \in RawTables}
    \cup {OsAnswer(e, 0, <<>>) : e \in OsFailures}

\* The OS asks for a larger buffer only when len bytes are too few.
Answerable(len, answer) ==
  answer.status = ERROR_BUFFER_OVERFLOW => answer.size > len

\* Lines 87-90: the locals before the fetch loop.
GetAdaptersCall ==
  /\ ga_pc \in {"idle", "returned", "panicked", "crashed"}
  /\ ga_pc' = "fetch"
  /\ buf_len' = InitialBufLen
  /\ adapters_addresses_buffer' = ZeroedBuffer(0)
  /\ result' = ERROR_BUFFER_OVERFLOW
  /\ adapters' = <<>>
  /\ adapter_addresses_ptr' = Null
  /\ ga_ret' = NotCalled
  /\ queries' = <<>>
  /\ decoded' = <<>>
  /\ UNCHANGED <<rvars, walk, fvars, applied>>

\* Mutants of the loop test: retry on every failure.
should_retry_any_failure(status) == status # ERROR_SUCCESS

\* while result == ERROR_BUFFER_OVERFLOW
should_retry(status) == status = ERROR_BUFFER_OVERFLOW

\* Mutant of the resize: the buffer grows by half instead of to buf_len.
resized_len_grow(old_len, len) == IF old_len = 0 THEN len ELSE old_len + old_len \div 2

\* adapters_addresses_buffer.resize(buf_len as usize, 0)
resized_len(old_len, len) == len

\* Mutant of the query: the size the OS reports is not taken over into buf_len.
TableQueryKeepsLen(answer) ==
  /\ ga_pc = "fetch"
  /\ should_retry(result)
  /\ LET len == resized_len(adapters_addresses_buffer.len, buf_len)
     IN /\ Answerable(len, answer)
        /\ queries' = Append(queries, [len |-> len, answer |-> answer])
        /\ adapters_addresses_buffer' =
             IF answer.status = ERROR_SUCCESS THEN FilledBuffer(len, answer.table)
             ELSE [adapters_addresses_buffer EXCEPT !.len = len]
  /\ result' = answer.status
  /\ buf_len' = buf_len
  /\ ga_pc' = IF should_retry(answer.status) THEN "fetch" ELSE "check"
  /\ UNCHANGED <<adapters, adapter_addresses_ptr, ga_ret, decoded>>
  /\ UNCHANGED <<rvars, walk, fvars, applied>>

\* Lines 91-101: one turn of the fetch loop, a resize and a query.
TableQuery(answer) ==
  /\ ga_pc = "fetch"
  /\ should_retry(result)
  /\ LET len == resized_len(adapters_addresses_buffer.len, buf_len)
     IN /\ Answerable(len, answer)
        /\ queries' = Append(queries, [len |-> len, answer |-> answer])
        /\ adapters_addresses_buffer' =
             IF answer.status = ERROR_SUCCESS THEN FilledBuffer(len, answer.table)
             ELSE [adapters_addresses_buffer EXCEPT !.len = len]
  /\ result' = answer.status
  /\ buf_len' = IF answer.status = ERROR_BUFFER_OVERFLOW THEN answer.size ELSE buf_len
  /\ ga_pc' = IF should_retry(answer.status) THEN "fetch" ELSE "check"
  /\ UNCHANGED <<adapters, adapter_addresses_ptr, ga_ret, decoded>>
  /\ UNCHANGED <<rvars, walk, fvars, applied>>

\* Lines 103-111: a status other than success ends the call.
CheckResult ==
  /\ ga_pc = "check"
  /\ IF result # ERROR_SUCCESS
     THEN /\ ga_ret' = Err(OsError(result))
          /\ ga_pc' = "returned"
          /\ UNCHANGED <<adapters, adapter_addresses_ptr>>
     ELSE /\ adapters' = <<>>
          /\ adapter_addresses_ptr' = BufferPtr
          /\ ga_pc' = "walk"
          /\ UNCHANGED ga_ret
  /\ UNCHANGED <<buf_len, adapters_addresses_buffer, result, queries, decoded>>
  /\ UNCHANGED <<rvars, walk, fvars, applied>>

\* Mutant of the walk: a record that fails to decode ends the walk with the
\* adapters decoded so far.
DecodeAdapterPartial(outcome) ==
  /\ ga_pc = "walk"
  /\ adapter_addresses_ptr # Null
  /\ outcome \in get_adapter(adapters_addresses_buffer.mem[adapter_addresses_ptr])
  /\ decoded' = Append(decoded, adapter_addresses_ptr)
  /\ IF outcome.tag = "Ok"
     THEN /\ adapters' = Append(adapters, outcome.val)
          /\ adapter_addresses_ptr' =
               adapters_addresses_buffer.mem[adapter_addresses_ptr].Next
          /\ UNCHANGED <<ga_pc, ga_ret>>
     ELSE /\ ga_pc' = "returned"
          /\ ga_ret' = Ok(adapters)
          /\ UNCHANGED <<adapters, adapter_addresses_ptr>>
  /\ UNCHANGED <<buf_len, adapters_addresses_buffer, result, queries>>
  /\ UNCHANGED <<rvars, walk, fvars, applied>>

\* Lines 113-116: one turn of the walk, get_adapter(ptr)? and the step to Next.
DecodeAdapter(outcome) ==
  /\ ga_pc = "walk"
  /\ adapter_addresses_ptr # Null
  /\ outcome \in get_adapter(adapters_addresses_buffer.mem[adapter_addresses_ptr])
  /\ decoded' = Append(decoded, adapter_addresses_ptr)
  /\ IF outcome.tag = "Ok"
     THEN /\ adapters' = Append(adapters, outcome.val)
          /\ adapter_addresses_ptr' =
               adapters_addresses_buffer.mem[adapter_addresses_ptr].Next
          /\ UNCHANGED <<ga_pc, ga_ret>>
     ELSE IF outcome.tag = "Err"
     THEN /\ ga_pc' = "returned"
          /\ ga_ret' = outcome
          /\ adapters' = <<>>
          /\ UNCHANGED adapter_addresses_ptr
     ELSE /\ ga_pc' = IF outcome.tag = "Panic" THEN "panicked" ELSE "crashed"
          /\ ga_ret' = outcome
          /\ adapters' = <<>>
          /\ UNCHANGED adapter_addresses_ptr
  /\ UNCHANGED <<buf_len, adapters_addresses_buffer, result, queries>>
  /\ UNCHANGED <<rvars, walk, fvars, applied>>

\* Lines 113 and 118: the null link ends the walk, Ok(adapters).
ReturnAdapters ==
  /\ ga_pc = "walk"
  /\ adapter_addresses_ptr = Null
  /\ ga_pc' = "returned"
  /\ ga_ret' = Ok(adapters)
  /\ UNCHANGED <<buf_len, adapters_addresses_buffer, result, adapters,
                 adapter_addresses_ptr, queries, decoded>>
  /\ UNCHANGED <<rvars, walk, fvars, applied>>

DecodeOutcomes ==
  UNION {get_adapter(r) : r \in RawRecords \cup {ZeroRecord}}

(***************************************************************************)
(* Conversions: src/src/utils.rs, DisplayData and SubLayer of              *)
(* src/src/fwpm.rs.                                                        *)
(***************************************************************************)

\* Bound of the interface-type codes tried.
MaxIfType == 300

\* u16::to_ne_bytes and u16::from_ne_bytes; the targets of windows-sys are
\* little-endian.
to_ne_bytes_u16(v) == <<v % 256, v \div 256>>
from_ne_bytes_u16(b) == b[1] + 256 * b[2]

\* u32::to_ne_bytes and u32::from_ne_bytes. A u32 is kept as its low and its
\* high 16 bits, <<low, high>>.
to_ne_bytes_u32(v) == to_ne_bytes_u16(v[1]) \o to_ne_bytes_u16(v[2])
from_ne_bytes_u32(b) == <<from_ne_bytes_u16(<<b[1], b[2]>>), from_ne_bytes_u16(<<b[3], b[4]>>)>>

\* Mutant of the encoder: data3 is written before data2.
guid_to_bytes_fields_swapped(guid) ==
  to_ne_bytes_u32(guid.data1) \o to_ne_bytes_u16(guid.data3)
    \o to_ne_bytes_u16(guid.data2) \o guid.data4

\* utils.rs, lines 3-25.
guid_to_bytes(guid) ==
  LET data1_bytes == to_ne_bytes_u32(guid.data1)
      data2_bytes == to_ne_bytes_u16(guid.data2)
      data3_bytes == to_ne_bytes_u16(guid.data3)
  IN <<data1_bytes[1], data1_bytes[2], data1_bytes[3], data1_bytes[4],
       data2_bytes[1], data2_bytes[2], data3_bytes[1], data3_bytes[2],
       guid.data4[1], guid.data4[2], guid.data4[3], guid.data4[4],
       guid.data4[5], guid.data4[6], guid.data4[7], guid.data4[8]>>

\* utils.rs, lines 27-36.
bytes_to_guid(bytes) ==
  [data1 |-> from_ne_bytes_u32(<<bytes[1], bytes[2], bytes[3], bytes[4]>>),
   data2 |-> from_ne_bytes_u16(<<bytes[5], bytes[6]>>),
   data3 |-> from_ne_bytes_u16(<<bytes[7], bytes[8]>>),
   data4 |-> <<bytes[9], bytes[10], bytes[11], bytes[12],
               bytes[13], bytes[14], bytes[15], bytes[16]>>]

\* 16-byte values: constant, rising and falling byte patterns.
Bytes16 ==
  {[i \in 1..16 |-> (base + step * i) % 256] :
     base \in {0, 1, 127, 128, 255}, step \in {0, 1, 15, 16, 17, 255}}

Words16 == {0, 1, 255, 256, 32768, 65535}

\* OS identifiers.
Guids ==
  {[data1 |-> <<lo, hi>>, data2 |-> d2, data3 |-> d3, data4 |-> d4] :
     lo \in Words16, hi \in Words16, d2 \in Words16, d3 \in Words16,
     d4 \in {Zeros(8), <<1, 2, 3, 4, 5, 6, 7, 8>>, <<255, 128, 127, 0, 0, 1, 254, 9>>}}

\* A wide string in memory: its units and the terminator. WideCString holds no
\* interior 0.
as_ptr(ws) == Str(ws \o <<0>>)

\* WideCString::from_ptr_str: the units before the first 0.
from_ptr_str(ptr) ==
  LET n == Min({i \in 1..Len(ptr.units) : ptr.units[i] = 0})
  IN SubSeq(ptr.units, 1, n - 1)

\* fwpm.rs, lines 15-25.
DisplayData_from(value) ==
  [name |-> from_ptr_str(value.name),
   desc |-> IF ~value.description.null THEN Some(from_ptr_str(value.description))
            ELSE None]

\* Mutant of the wire form: the description points to the name.
DisplayData_as_raw_name_twice(self) ==
  [name |-> as_ptr(self.name),
   description |-> IF self.desc # None THEN as_ptr(self.name) ELSE NullStr]

\* fwpm.rs, lines 35-44.
DisplayData_as_raw(self) ==
  [name |-> as_ptr(self.name),
   description |-> IF self.desc # None THEN as_ptr(self.desc[1]) ELSE NullStr]

\* fwpm.rs, lines 48-53.
empty_provider_data == [data |-> Null, size |-> 0]

U16_MAX == 65535

\* fwpm.rs, lines 180-191.
SubLayer_from(value) ==
  [sub_layer_key |-> guid_to_bytes(value.subLayerKey),
   display_data |-> DisplayData_from(value.displayData),
   flags |-> value.flags]

\* fwpm.rs, lines 194-203.
SubLayer_as_raw(self) ==
  [subLayerKey |-> bytes_to_guid(self.sub_layer_key),
   displayData |-> DisplayData_as_raw(self.display_data),
   flags |-> self.flags,
   providerKey |-> Null,
   providerData |-> empty_provider_data,
   weight |-> U16_MAX]

WideStrings == {<<>>, <<99>>, <<99, 108>>}

\* The SubLayer values tried.
SubLayers ==
  {[sub_layer_key |-> k, display_data |-> [name |-> n, desc |-> d], flags |-> fl] :
     k \in {[i \in 1..16 |-> (base + 17 * i) % 256] : base \in {0, 128, 255}},
     n \in WideStrings, d \in {None} \cup {Some(w) : w \in WideStrings},
     fl \in {0, 1, 65536}}

NoApplied == [fn |-> "none"]

\* bytes_to_guid on b, and guid_to_bytes on what it gave.
ApplyBytesToGuid(b) ==
  /\ applied = NoApplied
  /\ applied' = [fn |-> "bytes_to_guid", arg |-> b, out |-> bytes_to_guid(b),
                 back |-> guid_to_bytes(bytes_to_guid(b))]
  /\ UNCHANGED <<rvars, avars, walk, fvars>>

\* guid_to_bytes on g, and bytes_to_guid on what it gave.
ApplyGuidToBytes(g) ==
  /\ applied = NoApplied
  /\ applied' = [fn |-> "guid_to_bytes", arg |-> g, out |-> guid_to_bytes(g),
                 back |-> bytes_to_guid(guid_to_bytes(g))]
  /\ UNCHANGED <<rvars, avars, walk, fvars>>

\* The match on IfType of get_adapter.
ApplyIfType(code) ==
  /\ applied = NoApplied
  /\ applied' = [fn |-> "if_type", arg |-> code, out |-> if_type(code)]
  /\ UNCHANGED <<rvars, avars, walk, fvars>>

\* The memory at lpSockaddr: a sockaddr and the bytes behind it.
Blob(sockaddr) ==
  sockaddr \o [i \in 1..(SockaddrStorageSize + 2 - Len(sockaddr)) |-> 200 + (i % 50)]

\* Socket addresses with reported lengths around the kinds of sockaddr and the
\* capacity of the storage.
SocketAddresses ==
  {[lpSockaddr |-> Blob(b), iSockaddrLength |-> n] :
     b \in {SockaddrIn(1), SockaddrIn6(2), SockaddrOther(3)},
     n \in {-1, 0, 1, 16, 28, SockaddrStorageSize - 1, SockaddrStorageSize,
            SockaddrStorageSize + 1, SockaddrStorageSize + 2}}

\* socket_address_to_ipaddr on a socket address, with the staging it made.
ApplySocketAddress(socket_address) ==
  /\ applied = NoApplied
  /\ applied' = [fn |-> "socket_address_to_ipaddr", arg |-> socket_address,
                 staged |-> try_init(socket_address),
                 out |-> socket_address_to_ipaddr(socket_address)]
  /\ UNCHANGED <<rvars, avars, walk, fvars>>

\* SubLayer::as_raw on s, and SubLayer::from on what it gave.
ApplySubLayerAsRaw(s) ==
  /\ applied = NoApplied
  /\ applied' = [fn |-> "as_raw", arg |-> s, out |-> SubLayer_as_raw(s),
                 back |-> SubLayer_from(SubLayer_as_raw(s))]
  /\ UNCHANGED <<rvars, avars, walk, fvars>>

(***************************************************************************)
(* Packet-filter engine sessions: src/src/fwpm.rs.                         *)
(***************************************************************************)

\* Bound: the calls of get_sub_layers, get_filters and add_sub_layer made.
MaxFwCalls == 3

\* Statuses other than 0 the engine reports: access denied, the service is not
\* running, and FWP_E_ALREADY_EXISTS (its low word).
FwpFailures == {5, 1753}
FWP_E_ALREADY_EXISTS == 9

\* A sub-layer the host has before the process starts: persistent, owned by no
\* session.
BuiltinKey == [i \in 1..16 |-> (16 * i) % 256]
BuiltinLayer ==
  [subLayerKey |-> bytes_to_guid(BuiltinKey),
   displayData |-> [name |-> as_ptr(<<85>>), description |-> NullStr],
   flags |-> 1, providerKey |-> Null, providerData |-> empty_provider_data,
   weight |-> 0]

\* The filters of the layer get_filters asks for, as raw blocks.
HostFilters ==
  << [filterId |-> 71, displayData |-> [name |-> as_ptr(<<102>>), description |-> NullStr]],
     [filterId |-> 72, displayData |-> [name |-> as_ptr(<<103>>), description |-> as_ptr(<<>>)]] >>

\* The engine when the process starts: no session of the process, and the objects
\* of the host.
HostEngines ==
  {[sessions |-> {}, cursors |-> {}, sub_layers |-> l, filters |-> f] :
     l \in {<<>>, <<[raw |-> BuiltinLayer, owner |-> 0]>>},
     f \in {<<>>, HostFilters}}

\* The SubLayer values the process registers.
NewSubLayers ==
  {[sub_layer_key |-> k,
    display_data |-> [name |-> <<99, 108>>, desc |-> Some(<<99>>)],
    flags |-> 0] : k \in {BuiltinKey, [i \in 1..16 |-> 255 - i]}}

FwOps == {"get_sub_layers", "get_filters", "add_sub_layer"}

\* The handles the process holds open in the engine.
OpenHandles(e) == e.sessions \cup {c.handle : c \in e.cursors}

\* A handle value the engine has not given out: handles are not 0.
FreshHandle(e) ==
  Min({h \in 1..(Cardinality(OpenHandles(e)) + 1) : h \notin OpenHandles(e)})

\* What the end of a session does in the engine: its cursors and, the session
\* being dynamic, the objects added through it are gone.
EngineClosed(e, h) ==
  [e EXCEPT !.sessions = @ \ {h},
            !.cursors = {c \in @ : c.session # h},
            !.sub_layers = SelectSeq(@, LAMBDA l : l.owner # h)]

\* The array the enumeration hands back: a block of slots, each with the address
\* of an object, and the objects.
NullArray == [base |-> Null, slots |-> <<>>, objects |-> <<>>]
OsArray(records) ==
  [base |-> 1, slots |-> [i \in 1..Len(records) |-> i], objects |-> records]

\* The array of records with one more slot, at position p, that holds null.
WithNullSlot(records, p) ==
  [base |-> 1,
   slots |-> [i \in 1..(Len(records) + 1) |->
                IF i < p THEN i ELSE IF i = p THEN Null ELSE i - 1],
   objects |-> records]

\* The arrays the engine can hand back for records: with none to report, the
\* array pointer may stay null; and the arrays the test of the copy loop is
\* written for, with a slot that holds null.
OsArrays(records) ==
  (IF records = <<>> THEN {NullArray, OsArray(<<>>)} ELSE {OsArray(records)})
    \cup {WithNullSlot(records, p) : p \in 1..(Len(records) + 1)}

IdleFw ==
  [pc |-> "idle", op |-> "none", seq |-> 0, sub_layer |-> None,
   engine_handle |-> 0, enum_handle |-> 0, layers |-> NullArray, num_layers |-> 0,
   i |-> 0, results |-> <<>>, os_calls |-> <<>>, ret |-> NotCalled,
   open_before |-> {}]

OsCall(fn, code) == [fn |-> fn, code |-> code]

\* The process calls one of the three operations.
FwCall(op, sub_layer) ==
  /\ fw.pc \in {"idle", "returned"}
  /\ fw.seq < MaxFwCalls
  /\ (op = "add_sub_layer") <=> (sub_layer # None)
  /\ fw' = [IdleFw EXCEPT !.pc = "open", !.op = op, !.seq = fw.seq + 1,
                          !.sub_layer = sub_layer,
                          !.open_before = OpenHandles(engine)]
  /\ UNCHANGED <<engine, registered>>
  /\ UNCHANGED <<rvars, avars, walk, applied>>

\* Mutant of get_engine_handle: the status of FwpmEngineOpen0 is not tested.
EngineOpenUnchecked(code) ==
  /\ fw.pc = "open"
  /\ fw' = [fw EXCEPT !.os_calls = Append(@, OsCall("FwpmEngineOpen0", code)),
                      !.engine_handle = IF code = 0 THEN FreshHandle(engine) ELSE 0,
                      !.pc = IF fw.op = "add_sub_layer" THEN "add" ELSE "cursor"]
  /\ engine' = IF code = 0
               THEN [engine EXCEPT !.sessions = @ \cup {FreshHandle(engine)}]
               ELSE engine
  /\ UNCHANGED registered
  /\ UNCHANGED <<rvars, avars, walk, applied>>

\* get_engine_handle()?, lines 55-77: FwpmEngineOpen0 with a dynamic session.
EngineOpen(code) ==
  /\ fw.pc = "open"
  /\ LET f == [fw EXCEPT !.os_calls = Append(@, OsCall("FwpmEngineOpen0", code))]
     IN IF code # 0
        THEN /\ fw' = [f EXCEPT !.pc = "returned", !.ret = Err(OsError(code))]
             /\ UNCHANGED engine
        ELSE /\ fw' = [f EXCEPT !.engine_handle = FreshHandle(engine),
                                !.pc = IF fw.op = "add_sub_layer" THEN "add"
                                       ELSE "cursor"]
             /\ engine' = [engine EXCEPT !.sessions = @ \cup {FreshHandle(engine)}]
  /\ UNCHANGED registered
  /\ UNCHANGED <<rvars, avars, walk, applied>>

CreateEnumHandleFn ==
  IF fw.op = "get_filters" THEN "FwpmFilterCreateEnumHandle0"
  ELSE "FwpmSubLayerCreateEnumHandle0"

\* Mutant of the cursor creation: a failure is not returned, the enumeration is
\* tried with the handle 0.
CreateEnumHandleUnchecked(code) ==
  /\ fw.pc = "cursor"
  /\ fw' = [fw EXCEPT !.os_calls = Append(@, OsCall(CreateEnumHandleFn, code)),
                      !.enum_handle = IF code = 0 THEN FreshHandle(engine) ELSE 0,
                      !.pc = "enum"]
  /\ engine' = IF code = 0
               THEN [engine EXCEPT !.cursors = @ \cup
                       {[handle |-> FreshHandle(engine), session |-> fw.engine_handle]}]
               ELSE engine
  /\ UNCHANGED registered
  /\ UNCHANGED <<rvars, avars, walk, applied>>

\* get_enum_handle(engine_handle)?, lines 206-225, and lines 93-106 of
\* get_filters.
CreateEnumHandle(code) ==
  /\ fw.pc = "cursor"
  /\ LET f == [fw EXCEPT !.os_calls = Append(@, OsCall(CreateEnumHandleFn, code))]
     IN IF code # 0
        THEN /\ fw' = [f EXCEPT !.pc = "returned", !.ret = Err(OsError(code))]
             /\ UNCHANGED engine
        ELSE /\ fw' = [f EXCEPT !.enum_handle = FreshHandle(engine), !.pc = "enum"]
             /\ engine' = [engine EXCEPT !.cursors = @ \cup
                             {[handle |-> FreshHandle(engine),
                               session |-> fw.engine_handle]}]
  /\ UNCHANGED registered
  /\ UNCHANGED <<rvars, avars, walk, applied>>

\* The objects an enumeration of the call reports.
Enumerated ==
  IF fw.op = "get_filters" THEN engine.filters
  ELSE [i \in 1..Len(engine.sub_layers) |-> engine.sub_layers[i].raw]

EnumFn == IF fw.op = "get_filters" THEN "FwpmFilterEnum0" ELSE "FwpmSubLayerEnum0"

\* Lines 232-254 and 108-127: the enumeration of all the objects in one call.
\* Only get_sub_layers tests the array pointer.
Enum(code, array) ==
  /\ fw.pc = "enum"
  /\ code = 0 => array \in OsArrays(Enumerated)
  /\ code # 0 => array = NullArray
  /\ LET f == [fw EXCEPT !.os_calls = Append(@, OsCall(EnumFn, code)),
                         !.layers = array, !.num_layers = Len(array.slots)]
     IN IF code # 0
        THEN fw' = [f EXCEPT !.pc = "returned", !.ret = Err(OsError(code))]
        ELSE IF fw.op = "get_sub_layers" /\ array.base = Null
        THEN fw' = [f EXCEPT !.pc = "returned", !.ret = Err(OsError(0))]
        ELSE fw' = [f EXCEPT !.pc = "copy", !.i = 0, !.results = <<>>]
  /\ UNCHANGED <<engine, registered>>
  /\ UNCHANGED <<rvars, avars, walk, applied>>

\* What a copy of size_of::<FWPM_FILTER0>() bytes from the null address gives
\* when the read does not fault.
GarbageBlock ==
  [filterId |-> 0, displayData |-> [name |-> NullStr, description |-> NullStr]]

\* Lines 256-272 and 129-143: one turn of the copy loop. filter_ptr is the address
\* of slot i, layers.add(i); the object is copied out of the address in the slot
\* and, for a sub-layer, decoded.
\* copy_nonoverlapping from the null address faults, or copies what is there;
\* SubLayer::from then reads the name through a pointer of that block.
CopyEntry ==
  /\ fw.pc = "copy"
  /\ fw.i < fw.num_layers
  /\ LET filter_ptr == fw.layers.base + fw.i
         filter == fw.layers.slots[fw.i + 1]
         layer_data == fw.layers.objects[filter]
         copied == IF filter = Null
                   THEN IF fw.op = "get_filters" THEN {Crash, Ok(GarbageBlock)}
                        ELSE {Crash}
                   ELSE {Ok(IF fw.op = "get_filters" THEN layer_data
                            ELSE SubLayer_from(layer_data))}
     IN IF filter_ptr = Null
        THEN fw' = [fw EXCEPT !.pc = "returned", !.ret = Ok(fw.results)]
        ELSE \E outcome \in copied :
               fw' = IF outcome.tag = "Ok"
                     THEN [fw EXCEPT !.i = @ + 1, !.results = Append(@, outcome.val)]
                     ELSE [fw EXCEPT !.pc = "crashed", !.ret = outcome]
  /\ UNCHANGED <<engine, registered>>
  /\ UNCHANGED <<rvars, avars, walk, applied>>

\* Lines 273 and 145: Ok(results).
FwReturn ==
  /\ fw.pc = "copy"
  /\ fw.i = fw.num_layers
  /\ fw' = [fw EXCEPT !.pc = "returned", !.ret = Ok(fw.results)]
  /\ UNCHANGED <<engine, registered>>
  /\ UNCHANGED <<rvars, avars, walk, applied>>

\* What FwpmSubLayerAdd0 can answer for the key: a key the engine has is refused.
AddAnswerable(code, raw) ==
  IF \E i \in 1..Len(engine.sub_layers) :
       engine.sub_layers[i].raw.subLayerKey = raw.subLayerKey
  THEN code # 0 ELSE code # FWP_E_ALREADY_EXISTS

\* Mutant of add_sub_layer: the session is closed before the return.
SubLayerAddClosing(code) ==
  /\ fw.pc = "add"
  /\ LET raw == SubLayer_as_raw(fw.sub_layer[1])
         f == [fw EXCEPT !.os_calls = Append(@, OsCall("FwpmSubLayerAdd0", code)),
                         !.pc = "returned"]
     IN /\ AddAnswerable(code, raw)
        /\ IF code # 0
           THEN /\ fw' = [f EXCEPT !.ret = Err(OsError(code))]
                /\ engine' = EngineClosed(engine, fw.engine_handle)
                /\ UNCHANGED registered
           ELSE /\ fw' = [f EXCEPT !.ret = Ok(<<>>)]
                /\ engine' = EngineClosed(
                     [engine EXCEPT !.sub_layers =
                        Append(@, [raw |-> raw, owner |-> fw.engine_handle])],
                     fw.engine_handle)
                /\ registered' = registered \cup {fw.sub_layer[1].sub_layer_key}
  /\ UNCHANGED <<rvars, avars, walk, applied>>

\* add_sub_layer, lines 278-287: the wire form is submitted through the session.
SubLayerAdd(code) ==
  /\ fw.pc = "add"
  /\ LET raw == SubLayer_as_raw(fw.sub_layer[1])
         f == [fw EXCEPT !.os_calls = Append(@, OsCall("FwpmSubLayerAdd0", code)),
                         !.pc = "returned"]
     IN /\ AddAnswerable(code, raw)
        /\ IF code # 0
           THEN /\ fw' = [f EXCEPT !.ret = Err(OsError(code))]
                /\ UNCHANGED <<engine, registered>>
           ELSE /\ fw' = [f EXCEPT !.ret = Ok(<<>>)]
                /\ engine' = [engine EXCEPT !.sub_layers =
                                Append(@, [raw |-> raw, owner |-> fw.engine_handle])]
                /\ registered' = registered \cup {fw.sub_layer[1].sub_layer_key}
  /\ UNCHANGED <<rvars, avars, walk, applied>>

FwpCodes == {0} \cup FwpFailures \cup {FWP_E_ALREADY_EXISTS}

vars == <<rvars, avars, walk, fvars, applied>>

\* The process at its start.
InitProcess ==
  /\ now = 0
  /\ cache = [t \in Threads |-> [n \in Ifaces |-> None]]
  /\ call = [t \in Threads |-> IdleFrame]
  /\ entry_origin = [t \in Threads |-> [n \in Ifaces |-> None]]
  /\ ga_pc = "idle"
  /\ buf_len = 0
  /\ adapters_addresses_buffer = ZeroedBuffer(0)
  /\ result = 0
  /\ adapters = <<>>
  /\ adapter_addresses_ptr = Null
  /\ ga_ret = NotCalled
  /\ queries = <<>>
  /\ decoded = <<>>
  /\ walk = NoWalk
  /\ applied = NoApplied
  /\ fw = IdleFw
  /\ registered = {}

Init ==
  /\ InitProcess
  /\ engine = [sessions |-> {}, cursors |-> {},
               sub_layers |-> <<[raw |-> BuiltinLayer, owner |-> 0]>>,
               filters |-> HostFilters]

\* The process at its start, on any of the hosts.
InitFwpm ==
  /\ InitProcess
  /\ engine \in HostEngines

Next ==
  \/ \E t \in MainThread, is_ipv6 \in BOOLEAN, iface \in Ifaces : Lookup(t, is_ipv6, iface)
  \/ \E t \in MainThread, res \in GetAdaptersOutcomes : Enumerate(t, res)
  \/ \E t \in MainThread, r \in NameToIndexAnswers : NameToIndex(t, r)
  \/ \E t \in MainThread : Insert(t)
  \/ Tick

Spec == Init /\ [][Next]_vars

\* Two threads call the resolver for one name, their steps interleaved.
ThreadOutcomes == {Ok(<<EthV4Only>>), Ok(<<>>)}

NextThreads ==
  \/ \E t \in Threads : Lookup(t, FALSE, "eth0")
  \/ \E t \in Threads, res \in ThreadOutcomes : Enumerate(t, res)
  \/ \E t \in Threads : NameToIndex(t, 5)
  \/ \E t \in Threads : Insert(t)
  \/ Tick

SpecThreads == Init /\ [][NextThreads]_vars

NextWalk ==
  /\ walk = NoWalk
  /\ \E s \in LinkOrders, family \in [1..MaxChain -> Families] :
    \/ WalkDnsServers(s, family)
    \/ WalkGateways(s, family)
    \/ WalkUnicastAddresses(s, family)
    \/ WalkPrefixes(s, family)

SpecWalk == Init /\ [][NextWalk]_vars

NextConversions ==
  /\ applied = NoApplied
  /\ \/ \E b \in Bytes16 : ApplyBytesToGuid(b)
     \/ \E g \in Guids : ApplyGuidToBytes(g)
     \/ \E code \in 0..MaxIfType : ApplyIfType(code)
     \/ \E s \in SubLayers : ApplySubLayerAsRaw(s)
     \/ \E socket_address \in SocketAddresses : ApplySocketAddress(socket_address)

SpecConversions == Init /\ [][NextConversions]_vars

NextFwpm ==
  \/ \E op \in FwOps, sub_layer \in {None} \cup {Some(l) : l \in NewSubLayers} :
       FwCall(op, sub_layer)
  \/ \E code \in FwpCodes : EngineOpen(code)
  \/ \E code \in FwpCodes : CreateEnumHandle(code)
  \/ \E code \in FwpCodes, array \in OsArrays(Enumerated) \cup {NullArray} :
       Enum(code, array)
  \/ CopyEntry
  \/ FwReturn
  \/ \E code \in FwpCodes : SubLayerAdd(code)

SpecFwpm == InitFwpm /\ [][NextFwpm]_vars

NextAdapters ==
  \/ GetAdaptersCall
  \/ \E answer \in OsAnswers : TableQuery(answer)
  \/ CheckResult
  \/ \E outcome \in DecodeOutcomes : DecodeAdapter(outcome)
  \/ ReturnAdapters

SpecAdapters == Init /\ [][NextAdapters]_vars

\* A turn of the fetch loop.
FetchTurn ==
  /\ ga_pc = "fetch"
  /\ \E answer \in OsAnswers : TableQuery(answer)

\* The fetch loop keeps running while it is to retry: GetAdaptersAddresses
\* answers and the next turn is taken.
SpecAdaptersFair == SpecAdapters /\ WF_vars(FetchTurn)

(***************************************************************************)
(* Claims about the resolver.                                              *)
(***************************************************************************)

\* The frames of the calls made so far.
Frames == {call[t] : t \in {u \in Threads : call[u].seq > 0}}

\* The age, at the lookup, of the entry the call found in the cache.
AgeAtLookup(f) == f.t0 - f.cache_index[2]

\* The adapter at position i carries the name and has a non-zero index for the
\* requested family.
Matches(list, i, is_ipv6, iface) ==
  /\ list[i].friendly_name = iface \/ list[i].adapter_name = iface
  /\ (is_ipv6 /\ list[i].ipv6_if_index # 0)
       \/ (~is_ipv6 /\ list[i].ipv4_if_index # 0)

NoAdapterMatches(f) ==
  /\ f.adapters.tag = "Ok"
  /\ \A i \in 1..Len(f.adapters.val) : ~Matches(f.adapters.val, i, f.is_ipv6, f.iface)

\* C1: a call that finds an entry (idx, T) for its name with now - T < 5 seconds
\* returns idx and makes no OS call, neither the enumeration nor the fallback.
C1_CacheHit ==
  \A f \in Frames :
    (f.cache_index # None /\ AgeAtLookup(f) < 5) =>
      /\ f.pc = "done"
      /\ f.ret = Ok(f.cache_index[1])
      /\ f.os_calls = <<>>

C1_Witness ==
  \E f \in Frames :
    /\ f.cache_index # None /\ AgeAtLookup(f) = 4
    /\ f.pc = "done" /\ f.ret = Ok(f.cache_index[1])

\* C2: an entry of age >= 5 seconds is never answered from the cache: the call
\* enumerates the adapters, then falls back if no adapter matched, and its result
\* is the one of that fresh resolution; the same after failed re-resolutions that
\* left the stale entry in place.
C2_CacheExpiry ==
  \A f \in Frames :
    (f.cache_index # None /\ AgeAtLookup(f) >= 5) =>
      /\ f.pc = "enumerate" \/ (f.os_calls # <<>> /\ f.os_calls[1] = "GetAdaptersAddresses")
      /\ f.pc = "done" =>
           /\ f.adapters # NotCalled
           /\ (f.if_index # -1) <=> NoAdapterMatches(f)
           /\ f.os_calls = IF NoAdapterMatches(f)
                           THEN <<"GetAdaptersAddresses", "if_nametoindex">>
                           ELSE <<"GetAdaptersAddresses">>
           /\ f.ret.tag = "Ok" =>
                IF NoAdapterMatches(f) THEN f.ret.val = f.if_index
                ELSE \E i \in 1..Len(f.adapters.val) :
                       /\ Matches(f.adapters.val, i, f.is_ipv6, f.iface)
                       /\ f.ret.val \in {f.adapters.val[i].ipv4_if_index,
                                         f.adapters.val[i].ipv6_if_index}

C2_Witness ==
  \E t \in Threads :
    /\ call[t].seq > 0 /\ call[t].pc = "done"
    /\ call[t].cache_index # None /\ AgeAtLookup(call[t]) >= 5
    /\ call[t].stale_failures >= 1
    /\ call[t].os_calls # <<>>
    /\ cache[t][call[t].iface] = call[t].cache_index

\* C3: on a cache miss with a matching adapter in the list, the call returns the
\* requested-family index of the first matching adapter: ipv6_if_index when
\* is_ipv6, ipv4_if_index otherwise.
C3_RequestedFamilyIndex ==
  \A f \in Frames :
    (f.pc = "done" /\ f.adapters # NotCalled /\ f.adapters.tag = "Ok"
       /\ ~NoAdapterMatches(f)) =>
      \E i \in 1..Len(f.adapters.val) :
        /\ Matches(f.adapters.val, i, f.is_ipv6, f.iface)
        /\ \A j \in 1..(i - 1) : ~Matches(f.adapters.val, j, f.is_ipv6, f.iface)
        /\ f.ret = Ok(IF f.is_ipv6 THEN f.adapters.val[i].ipv6_if_index
                                   ELSE f.adapters.val[i].ipv4_if_index)

\* C4: when no adapter matches and if_nametoindex answers 0, the call returns the
\* input error "invalid interface name" and the cache entry of the name is neither
\* inserted nor overwritten.
C4_InvalidInterfaceName ==
  \A t \in Threads :
    (call[t].seq > 0 /\ call[t].if_index = 0) =>
      /\ NoAdapterMatches(call[t])
      /\ call[t].pc = "done"
      /\ call[t].ret = Err(IoError("InvalidInput", "invalid interface name"))
      /\ cache[t][call[t].iface] = call[t].cache_index

C4_Witness ==
  \E t \in Threads :
    /\ call[t].seq > 0 /\ call[t].if_index = 0 /\ call[t].pc = "done"
    /\ NoAdapterMatches(call[t])
    /\ call[t].cache_index # None
    /\ call[t].ret.tag = "Err"

(***************************************************************************)
(* Claims about the adapter enumerator.                                    *)
(***************************************************************************)

Overflows == {i \in 1..Len(queries) : queries[i].answer.status = ERROR_BUFFER_OVERFLOW}

LastQuery == queries[Len(queries)]

\* The call has left its fetch loop with the table of a successful query.
Fetched == queries # <<>> /\ ga_pc # "fetch" /\ LastQuery.answer.status = ERROR_SUCCESS

GaEnded == ga_pc \in {"returned", "panicked", "crashed"}

\* C5: k overflow answers and then a success make exactly k+1 queries, the first
\* with a buffer of 16384 bytes, each later one with a buffer of the size the
\* preceding overflow reported, so the buffer of the successful query is at least
\* the last size reported.
C5_BufferRetry ==
  /\ queries # <<>> => queries[1].len = 16384
  /\ \A i \in 2..Len(queries) :
       /\ queries[i - 1].answer.status = ERROR_BUFFER_OVERFLOW
       /\ queries[i].len = queries[i - 1].answer.size
  /\ (queries # <<>> /\ LastQuery.answer.status = ERROR_SUCCESS) =>
       /\ ga_pc # "fetch"
       /\ Len(queries) = Cardinality(Overflows) + 1
       /\ adapters_addresses_buffer.len = LastQuery.len
       /\ \A i \in Overflows : adapters_addresses_buffer.len >= queries[i].answer.size

C5_Witness ==
  /\ ga_pc = "returned" /\ ga_ret.tag = "Ok"
  /\ Len(queries) = 3 /\ Cardinality(Overflows) = 2

\* C6: a status other than success and overflow is the last query of the call,
\* which returns the Os error of that status and decodes no record.
C6_TerminalFailure ==
  \A i \in 1..Len(queries) :
    queries[i].answer.status \notin {ERROR_SUCCESS, ERROR_BUFFER_OVERFLOW} =>
      /\ i = Len(queries)
      /\ ga_pc \in {"check", "returned"}
      /\ decoded = <<>>
      /\ ga_pc = "returned" => ga_ret = Err(OsError(queries[i].answer.status))

C6_Witness ==
  /\ ga_pc = "returned" /\ Len(queries) = 2
  /\ ga_ret = Err(OsError(232))

\* C7: the fetch loop ends: a call in the loop reaches the test of the final
\* status, and every retry is made with a larger buffer, of a size the OS asked
\* for.
C7_FetchTerminates ==
  /\ (ga_pc = "fetch") ~> (ga_pc = "check")
  /\ [](\A i \in 2..Len(queries) :
          /\ queries[i].len > queries[i - 1].len
          /\ queries[i].len \in RequiredSizes)

C7_Witness ==
  /\ ga_pc = "check" /\ Len(queries) = 3 /\ result = ERROR_SUCCESS

\* C8: a successful query of a table without adapter records makes get_adapters
\* return Ok of the empty list, without an error and without decoding a record.
C8_EmptyTable ==
  (GaEnded /\ Fetched /\ LastQuery.answer.table = <<>>) =>
    /\ ga_ret = Ok(<<>>)
    /\ decoded = <<>>

\* The text of a raw record that does not decode.
BadText(r) ==
  \/ \E i \in 1..Len(r.AdapterName.units) : r.AdapterName.units[i] = 255
  \/ \E i \in 1..Len(r.Description.units) : r.Description.units[i] = 55296
  \/ \E i \in 1..Len(r.FriendlyName.units) : r.FriendlyName.units[i] = 55296

\* C10: get_adapters returns the adapters of all the records of the chain or an
\* error: when the text of a record does not decode it returns an error, and
\* none of the adapters decoded before.
C10_NoPartialResults ==
  (ga_pc = "returned" /\ Fetched) =>
    LET table == LastQuery.answer.table
    IN /\ ga_ret.tag \in {"Ok", "Err"}
       /\ ga_ret.tag = "Ok" =>
            /\ Len(ga_ret.val) = Len(table)
            /\ \A i \in 1..Len(table) :
                 /\ ga_ret.val[i].adapter_name = table[i].AdapterName.units
                 /\ ga_ret.val[i].friendly_name = table[i].FriendlyName.units
                 /\ ga_ret.val[i].ipv4_if_index = table[i].IfIndex
       /\ (\E i \in 1..Len(table) : BadText(table[i])) =>
            /\ ga_ret.tag = "Err"
            /\ adapters = <<>>

C10_Witness ==
  /\ ga_pc = "returned" /\ Fetched
  /\ ga_ret.tag = "Err"
  /\ Len(decoded) = 2
  /\ ~BadText(LastQuery.answer.table[1])
  /\ BadText(LastQuery.answer.table[2])

(***************************************************************************)
(* Claims about the record walkers.                                        *)
(***************************************************************************)

\* The IP address of the sockaddr of a family at address a.
ExpectedIp(family, a) ==
  IF family = "in" THEN [v |-> 4, octets |-> <<10, 0, 0, a>>]
  ELSE [v |-> 6, octets |-> <<254, 128>> \o Zeros(13) \o <<a>>]

\* C9: each of the four walkers, given a chain of n >= 0 records that ends in a
\* null link, yields the n decoded entries in link order, the empty list for a
\* null head, and nothing of the records behind the null link; it unwinds only
\* on a record whose socket address is no IP address.
C9_ChainWalk ==
  walk # NoWalk =>
    LET n == Len(walk.chain)
        entry(i) ==
          IF walk.fn = "get_prefixes"
          THEN <<ExpectedIp(walk.family[walk.chain[i]], walk.chain[i]), 8 * walk.chain[i]>>
          ELSE ExpectedIp(walk.family[walk.chain[i]], walk.chain[i])
    IN IF \A i \in 1..n : walk.family[walk.chain[i]] # "other"
       THEN walk.out = Ok([i \in 1..n |-> entry(i)])
       ELSE walk.out.tag = "Panic"

C9_Witness ==
  /\ walk # NoWalk /\ walk.fn = "get_gateways"
  /\ Len(walk.chain) = 3 /\ walk.chain[1] > walk.chain[2]
  /\ walk.out.tag = "Ok" /\ Len(walk.out.val) = 3

(***************************************************************************)
(* Further claims about the adapter enumerator.                            *)
(***************************************************************************)

\* The record the walk decoded last.
LastDecoded == adapters_addresses_buffer.mem[decoded[Len(decoded)]]

\* C11: a record with an operational status outside 1..7 makes get_adapters
\* return an error to its caller; the call does not unwind or abort.
C11_OperStatusDecodeError ==
  (GaEnded /\ Fetched /\ decoded # <<>> /\ ~LastDecoded.AdapterName.null
     /\ LastDecoded.OperStatus \notin 1..7) =>
    /\ ga_pc = "returned"
    /\ ga_ret.tag = "Err"

(***************************************************************************)
(* Claims about the packet-filter engine sessions.                         *)
(***************************************************************************)

\* C12: when get_sub_layers, get_filters or add_sub_layer has returned, with Ok
\* or with an error, the sessions and cursors open in the engine are those that
\* were open before the call.
C12_HandlesReleased ==
  fw.pc = "returned" => OpenHandles(engine) = fw.open_before

\* C13: once add_sub_layer has returned Ok for a key, every get_sub_layers that
\* returns Ok has an entry with that key.
C13_AddThenEnumerate ==
  (fw.pc = "returned" /\ fw.op = "get_sub_layers" /\ fw.ret.tag = "Ok") =>
    \A k \in registered :
      \E i \in 1..Len(fw.ret.val) : fw.ret.val[i].sub_layer_key = k

\* An Ok enumeration after a registration made through another session, one
\* that is still open.
C13_Witness ==
  /\ fw.pc = "returned" /\ fw.op = "get_sub_layers" /\ fw.ret.tag = "Ok"
  /\ registered # {}
  /\ \E i \in 1..Len(engine.sub_layers) :
       /\ engine.sub_layers[i].owner \in engine.sessions \ {fw.engine_handle}
       /\ guid_to_bytes(engine.sub_layers[i].raw.subLayerKey) \in registered
       /\ fw.ret.val[i].sub_layer_key \in registered

\* C14: when FwpmEngineOpen0 fails with status c, the call returns the Os error
\* of c, makes no other OS call and leaves no session behind.
C14_SessionOpenFailure ==
  (fw.os_calls # <<>> /\ fw.os_calls[1].code # 0) =>
    /\ fw.os_calls[1].fn = "FwpmEngineOpen0"
    /\ Len(fw.os_calls) = 1
    /\ fw.pc = "returned"
    /\ fw.ret = Err(OsError(fw.os_calls[1].code))
    /\ OpenHandles(engine) = fw.open_before

C14_Witness ==
  /\ fw.pc = "returned" /\ fw.seq = 3 /\ fw.op = "get_sub_layers"
  /\ fw.os_calls = <<OsCall("FwpmEngineOpen0", 1753)>>
  /\ fw.ret = Err(OsError(1753))
  /\ fw.open_before # {}

\* C20: get_sub_layers and get_filters call the OS in the order session-open,
\* cursor-create, enumerate, each at most once and each only after the one
\* before succeeded; a failure with status c is the last OS call and the call
\* returns the Os error of c.
C20_HandleProtocolOrder ==
  fw.op \in {"get_sub_layers", "get_filters"} =>
    LET order == <<"FwpmEngineOpen0", CreateEnumHandleFn, EnumFn>>
        n == Len(fw.os_calls)
    IN /\ n <= 3
       /\ \A i \in 1..n : fw.os_calls[i].fn = order[i]
       /\ \A i \in 1..(n - 1) : fw.os_calls[i].code = 0
       /\ (n > 0 /\ fw.os_calls[n].code # 0) =>
            /\ fw.pc = "returned"
            /\ fw.ret = Err(OsError(fw.os_calls[n].code))
       /\ (fw.pc = "cursor" => n = 1) /\ (fw.pc = "enum" => n = 2)
       /\ (fw.pc = "copy" => n = 3)

C20_Witness ==
  /\ fw.op = "get_filters" /\ fw.pc = "returned"
  /\ Len(fw.os_calls) = 3 /\ fw.os_calls[3] = OsCall("FwpmFilterEnum0", 5)
  /\ fw.ret = Err(OsError(5))

(***************************************************************************)
(* Claims about the conversions.                                           *)
(***************************************************************************)

\* C15: guid_to_bytes(bytes_to_guid(b)) = b for a 16-byte value b, and
\* bytes_to_guid(guid_to_bytes(g)) = g, field for field, for an identifier g.
C15_CodecRoundTrip ==
  /\ applied.fn = "bytes_to_guid" => applied.back = applied.arg
  /\ applied.fn = "guid_to_bytes" =>
       /\ applied.back.data1 = applied.arg.data1
       /\ applied.back.data2 = applied.arg.data2
       /\ applied.back.data3 = applied.arg.data3
       /\ applied.back.data4 = applied.arg.data4

C15_Witness ==
  /\ applied.fn = "guid_to_bytes"
  /\ applied.arg.data1 = <<32768, 65535>>
  /\ applied.arg.data2 = 256 /\ applied.arg.data3 = 1
  /\ applied.out = <<0, 128, 255, 255, 0, 1, 1, 0, 1, 2, 3, 4, 5, 6, 7, 8>>

CuratedIfTypes == {1, 6, 9, 23, 24, 37, 71, 131, 144}

\* C16: a code outside the curated set decodes to Unsupported, Other comes from
\* the code 1 only, and each curated code decodes to its own variant.
C16_IfTypeMapping ==
  applied.fn = "if_type" =>
    /\ applied.arg \notin CuratedIfTypes => applied.out = "Unsupported"
    /\ applied.out = "Other" => applied.arg = 1
    /\ applied.arg \in CuratedIfTypes =>
         applied.out =
           CASE applied.arg = 1 -> "Other"
             [] applied.arg = 6 -> "EthernetCsmacd"
             [] applied.arg = 9 -> "Iso88025Tokenring"
             [] applied.arg = 23 -> "Ppp"
             [] applied.arg = 24 -> "SoftwareLoopback"
             [] applied.arg = 37 -> "Atm"
             [] applied.arg = 71 -> "Ieee80211"
             [] applied.arg = 131 -> "Tunnel"
             [] applied.arg = 144 -> "Ieee1394"

C16_Witness ==
  applied.fn = "if_type" /\ applied.arg = 145 /\ applied.out = "Unsupported"

\* C19: SubLayer::from(s.as_raw()) has the key, the flags, the name and the
\* description of s, None staying None and Some staying Some; s.as_raw() has
\* the weight 65535, a null provider key and provider data of null and 0.
C19_SubLayerRoundTrip ==
  applied.fn = "as_raw" =>
    /\ applied.back.sub_layer_key = applied.arg.sub_layer_key
    /\ applied.back.flags = applied.arg.flags
    /\ applied.back.display_data.name = applied.arg.display_data.name
    /\ applied.back.display_data.desc = applied.arg.display_data.desc
    /\ applied.out.weight = 65535
    /\ applied.out.providerKey = Null
    /\ applied.out.providerData = [data |-> Null, size |-> 0]

C19_Witness ==
  /\ applied.fn = "as_raw"
  /\ applied.arg.display_data = [name |-> <<99, 108>>, desc |-> Some(<<99>>)]
  /\ applied.arg.flags = 65536
  /\ applied.back = applied.arg

(***************************************************************************)
(* Further claims about the resolver.                                      *)
(***************************************************************************)

\* C17: an entry (i, T) made by a resolution for one family answers a call for
\* the same name and the other family on the same thread at any time before
\* T + 5 seconds: the call returns i without an OS call, whatever index the
\* adapter has for the other family.
C17_NameOnlyKey ==
  \A t \in Threads :
    LET f == call[t]
        e == cache[t][f.iface]
        o == entry_origin[t][f.iface]
    IN (f.seq > 0 /\ e # None /\ e[2] <= f.t0 /\ f.t0 - e[2] < 5
          /\ o[1].is_ipv6 # f.is_ipv6) =>
         /\ f.pc = "done"
         /\ f.ret = Ok(e[1])
         /\ f.os_calls = <<>>

\* The entry was made for IPv4 from an adapter without an IPv6 index and
\* answers a call for IPv6 four seconds later.
C17_Witness ==
  \E t \in Threads :
    LET f == call[t]
        e == cache[t][f.iface]
        o == entry_origin[t][f.iface]
    IN /\ f.seq > 0 /\ f.pc = "done" /\ f.is_ipv6
       /\ e # None /\ f.t0 - e[2] = 4
       /\ o[1] = [is_ipv6 |-> FALSE, via |-> "adapters", other_index |-> 0]
       /\ f.ret = Ok(e[1]) /\ f.os_calls = <<>>

\* C18: the caches of two threads that interleave calls for one name are apart.
\* A call reads the entry of its own thread's cache; the first call of a thread
\* finds no entry and resolves through the OS, also when the other thread holds
\* a fresh entry for the name; and a step writes to the cache of the calling
\* thread only.
C18_ThreadIsolation ==
  /\ [](\A t \in Threads :
          call[t].seq = 1 =>
            /\ call[t].cache_index = None
            /\ call[t].pc # "enumerate" =>
                 call[t].os_calls[1] = "GetAdaptersAddresses")
  /\ [][\A t \in Threads :
          /\ call'[t].seq # call[t].seq =>
               call'[t].cache_index = cache[t][call'[t].iface]
          /\ cache'[t] # cache[t] =>
               /\ call[t].pc = "insert" /\ call'[t].pc = "done"
               /\ \A u \in Threads \ {t} : cache'[u] = cache[u]]_vars

\* The second thread makes its first call, and resolves through the OS, while the
\* first thread holds an entry for the name that is younger than 5 seconds.
C18_Witness ==
  /\ call["t2"].seq = 1 /\ call["t2"].pc = "done" /\ call["t2"].ret.tag = "Ok"
  /\ call["t2"].cache_index = None
  /\ call["t2"].os_calls # <<>>
  /\ cache["t1"]["eth0"] # None
  /\ cache["t1"]["eth0"][2] <= call["t2"].t0
  /\ call["t2"].t0 - cache["t1"]["eth0"][2] < 5

(***************************************************************************)
(* Further claims about the packet-filter engine sessions.                 *)
(***************************************************************************)

FwEnded == fw.pc \in {"returned", "crashed"}

\* The addresses in the slots of the array that are not null, in array order.
NonNullSlots == SelectSeq(fw.layers.slots, LAMBDA a : a # Null)

\* C21: of the array the enumeration handed back, get_sub_layers and
\* get_filters copy and decode the objects of the non-null slots only: the
\* call returns one record for each of them, in array order, and reads through
\* no null slot.
C21_NonNullEntriesOnly ==
  (FwEnded /\ fw.op \in {"get_sub_layers", "get_filters"}
     /\ Len(fw.os_calls) = 3 /\ fw.os_calls[3].code = 0 /\ fw.layers.base # Null) =>
    /\ fw.pc = "returned"
    /\ fw.ret.tag = "Ok"
    /\ Len(fw.ret.val) = Len(NonNullSlots)
    /\ \A j \in 1..Len(NonNullSlots) :
         fw.ret.val[j] = IF fw.op = "get_filters"
                         THEN fw.layers.objects[NonNullSlots[j]]
                         ELSE SubLayer_from(fw.layers.objects[NonNullSlots[j]])

\* C23: an Os error that get_sub_layers, get_filters or add_sub_layer returns
\* carries the status of the OS call that failed, which is not 0, also when the
\* enumeration answered 0 and handed back a null array.
C23_OsErrorCarriesFailure ==
  (fw.pc = "returned" /\ fw.ret.tag = "Err") =>
    /\ fw.ret.err.code # 0
    /\ fw.ret.err = OsError(fw.os_calls[Len(fw.os_calls)].code)

(***************************************************************************)
(* Claims about the effects of the resolver on its cache.                  *)
(***************************************************************************)

\* C22: a step changes a cache only at the entry of the name of the call, as the
\* last step of a resolution that went through the OS and succeeded, to
\* (index returned, current time); entries are never removed; and a call that
\* hit the cache or failed has left the entry of its name as it found it.
C22_CacheFrame ==
  /\ [](\A t \in Threads :
          (call[t].seq > 0 /\ call[t].pc = "done"
             /\ (call[t].os_calls = <<>> \/ call[t].ret.tag = "Err")) =>
            cache[t][call[t].iface] = call[t].cache_index)
  /\ [][\A t \in Threads, n \in Ifaces :
          /\ cache[t][n] # None => cache'[t][n] # None
          /\ cache'[t][n] # cache[t][n] =>
               /\ call[t].pc = "insert" /\ n = call[t].iface
               /\ call[t].os_calls # <<>>
               /\ call'[t].pc = "done"
               /\ call'[t].ret = Ok(cache'[t][n][1])
               /\ cache'[t][n][2] = now]_vars

\* A hit at age 4 on one name after the other name was resolved and cached:
\* the entry hit still has its first timestamp.
C22_Witness ==
  \E t \in Threads :
    /\ call[t].seq = 3 /\ call[t].pc = "done" /\ call[t].os_calls = <<>>
    /\ call[t].iface = "eth0"
    /\ cache[t]["eth0"] # None /\ call[t].t0 - cache[t]["eth0"][2] = 4
    /\ cache[t]["{C}"] # None /\ cache[t]["{C}"][2] > cache[t]["eth0"][2]

\* C24: the index a successful call returns, and the index of every cache entry,
\* is not 0, for either family and for the adapter scan and the fallback alike.
C24_NonZeroIndex ==
  \A t \in Threads :
    /\ (call[t].pc = "done" /\ call[t].ret.tag = "Ok") => call[t].ret.val # 0
    /\ \A n \in Ifaces : cache[t][n] # None => cache[t][n][1] # 0

\* C25: a call whose enumeration of the adapters failed returns the NotFound
\* error that wraps the enumeration error, does not call if_nametoindex and
\* leaves the cache as it was; if_nametoindex is called only after an
\* enumeration that succeeded without a match.
C25_EnumerationFailure ==
  \A t \in Threads :
    LET f == call[t]
    IN /\ (f.seq > 0 /\ f.adapters # NotCalled /\ f.adapters.tag = "Err") =>
            /\ f.pc = "done"
            /\ f.ret = Err(IoError("NotFound", f.adapters.err))
            /\ f.os_calls = <<"GetAdaptersAddresses">>
            /\ f.if_index = -1
            /\ cache[t][f.iface] = f.cache_index
       /\ (f.seq > 0 /\ (f.pc = "fallback" \/ f.if_index # -1
                          \/ \E i \in 1..Len(f.os_calls) : f.os_calls[i] = "if_nametoindex")) =>
            NoAdapterMatches(f)

\* A stale entry, a failed enumeration: the error is returned and the entry
\* stays.
C25_Witness ==
  \E t \in Threads :
    /\ call[t].seq > 0 /\ call[t].pc = "done"
    /\ call[t].adapters = Err(OsError(8))
    /\ call[t].ret = Err(IoError("NotFound", OsError(8)))
    /\ call[t].cache_index # None
    /\ cache[t][call[t].iface] = call[t].cache_index

(***************************************************************************)
(* Further claims about the conversions.                                   *)
(***************************************************************************)

\* C26: socket_address_to_ipaddr copies the iSockaddrLength bytes reported, no
\* more and no fewer, into the zeroed storage of 128 bytes; a length above 128
\* fails the assertion with nothing copied, it is not cut to 128.
C26_StagingCopy ==
  applied.fn = "socket_address_to_ipaddr" =>
    LET n == applied.arg.iSockaddrLength
    IN /\ n > 128 =>
            /\ applied.staged =
                 Panic("assertion failed: sockaddr_length <= size_of storage")
            /\ applied.out = applied.staged
       /\ (0 <= n /\ n <= 128) =>
            /\ applied.staged.tag = "Ok"
            /\ applied.staged.val.copied = n
            /\ applied.staged.val.length = n
            /\ \A i \in 1..128 :
                 applied.staged.val.storage[i] =
                   IF i <= n THEN applied.arg.lpSockaddr[i] ELSE 0

\* A blob of 129 bytes.
C26_Witness ==
  /\ applied.fn = "socket_address_to_ipaddr"
  /\ applied.arg.iSockaddrLength = 129 /\ Len(applied.arg.lpSockaddr) >= 129
  /\ applied.arg.lpSockaddr[1] = AF_INET
  /\ applied.staged.tag = "Panic"

====
